---- MODULE Spec2Model ----
(***************************************************************************)
(* A model of the Plot canvas helper of src/plot.js (lines 21-493).  One   *)
(* Plot instance is constructed over a document that may or may not hold   *)
(* a usable canvas; afterwards the caller invokes the prototype's methods  *)
(* one at a time.  A method runs to completion (or to the exception it     *)
(* throws) inside one step.                                                *)
(*                                                                         *)
(* JavaScript values: a value that may be undefined/null is a sequence of  *)
(* length at most one (<<>> is undefined, <<v>> is v).  Numbers are        *)
(* integers; the quantities the code halves (canvas sizes, rectangle       *)
(* widths and heights) are drawn from even numbers so that n/2 is exact.   *)
(* Objects that the code aliases (lastPoint, origin) live in a heap and    *)
(* are held by reference.                                                  *)
(* The object stub that ends the file (lines 516-527) is a separate, unused *)
(* definition and is not part of the model.                                *)
(***************************************************************************)
EXTENDS Integers, Sequences, FiniteSets, TLC

\* ---------------------------------------------------------------- bounds
MaxCoord == 1      \* a call leaves the pen within -MaxCoord..MaxCoord
MaxRadius == 1     \* corner radii are drawn from 0..MaxRadius

Steps == {-1, 0, 1}                     \* offsets and coordinates given
Radii == 0..MaxRadius
CanvasSizes == {<<2, 2>>}               \* width, height of the canvas
RectSizes == {<<4, 2>>, <<2, 2>>}              \* width, height given to roundRect
\* x, y given to roundRect: omitted, zero, or other numbers
RectPlaces == {<<<<>>, <<>>>>, <<<<0>>, <<0>>>>, <<<<1>>, <<1>>>>,
               <<<<>>, <<1>>>>}
Ids == {"a", "b"}
Colors == {"red"}
Widths == {2}
ArcCentres == {<<0, 0>>, <<1, 2>>}
AnglePairs == {<<0, 90>>, <<90, 180>>}
PenPlaces == {<<0, 0>>, <<1, -1>>}      \* absolute places to put the pen

\* ------------------------------------------------------------ JS values
Undefined == <<>>
Some(v) == <<v>>
Val(o) == o[1]
Point(px, py) == [x |-> px, y |-> py]
Cmd(name, a) == [op |-> name, args |-> a]

\* truthiness of an optional number: undefined and 0 are falsy
Truthy(o) == o # Undefined /\ Val(o) # 0
\* a || b
OrElse(o, d) == IF Truthy(o) THEN Val(o) ELSE d
Half(n) == n \div 2

\* what a call hands back: the instance itself, a value, or nothing yet
Self == [kind |-> "this", value |-> "this"]
Value(v) == [kind |-> "value", value |-> v]
NoValue == [kind |-> "undefined", value |-> "undefined"]

VARIABLES
    lastPoint,   \* this.lastPoint: reference into heap
    origin,      \* this.origin: reference into heap
    heap,        \* the point objects, by reference
    isDrawing,   \* this.isDrawing
    rects,       \* this.rects: undefined, or <<map from id to descriptor>>
    canvas,      \* this.canvas: null, or <<[width, height]>>
    context,     \* this.context: undefined, or <<[strokeStyle, lineWidth]>>
    call,        \* the method called last, with its arguments
    cmds,        \* the commands the last call issued to the context, in order
    result,      \* how the last call ended: returned this, a value, or threw
    anchor,      \* history: the pen position before the current run of
                 \*   relative moves and lines
    travelled    \* history: the sum of the offsets of that run

vars == <<lastPoint, origin, heap, isDrawing, rects, canvas, context,
          call, cmds, result, anchor, travelled>>

\* --------------------------------------------- the running method's state
\* The fields of the instance plus what the call in progress has produced.
This == [lastPoint |-> lastPoint, origin |-> origin, heap |-> heap,
         isDrawing |-> isDrawing, rects |-> rects, canvas |-> canvas,
         context |-> context, cmds |-> <<>>, status |-> "ok",
         ret |-> NoValue]

Thrown(m) == m.status # "ok"
Throw(m, e) == IF Thrown(m) THEN m ELSE [m EXCEPT !.status = e]
\* return this / return a value
Return(m, v) == IF Thrown(m) THEN m ELSE [m EXCEPT !.ret = v]
Deref(m, ref) == m.heap[ref]

\* this.context.<name>(args): reading a property of an undefined context
\* throws a TypeError before anything reaches the surface.
contextCall(m, name, a) ==
    IF Thrown(m) THEN m
    ELSE IF m.context = Undefined THEN Throw(m, "TypeError")
    ELSE [m EXCEPT !.cmds = Append(@, Cmd(name, a))]

\* this.context.<prop> = v
contextSet(m, prop, v) ==
    IF Thrown(m) THEN m
    ELSE IF m.context = Undefined THEN Throw(m, "TypeError")
    ELSE [m EXCEPT !.context = Some([Val(@) EXCEPT ![prop] = v])]

\* -------------------------------------------------------------- methods
\* updateLastPoint with the y offset added to the wrong coordinate
updateLastPoint_wrongAxis(m, x, y, absolute) ==
    IF Thrown(m) THEN m
    ELSE LET lp == Deref(m, m.lastPoint)
             np == IF absolute THEN Point(x, y)
                   ELSE Point(x + lp.x, y + lp.x)
         IN Return([m EXCEPT !.heap = [o \in {0, 1} |->
                                          IF o = 1 THEN np ELSE m.heap[0]],
                             !.lastPoint = 1], Self)

\* updateLastPoint writing into the object lastPoint refers to, instead of
\* making a new one
updateLastPoint_inPlace(m, x, y, absolute) ==
    IF Thrown(m) THEN m
    ELSE LET lp == Deref(m, m.lastPoint)
             np == IF absolute THEN Point(x, y)
                   ELSE Point(x + lp.x, y + lp.y)
         IN Return([m EXCEPT !.heap[m.lastPoint] = np], Self)

\* The object literal is a fresh object: it takes the heap cell that is not
\* the origin's (the previous lastPoint object, if any, is unreferenced).
updateLastPoint(m, x, y, absolute) ==
    IF Thrown(m) THEN m
    ELSE LET lp == Deref(m, m.lastPoint)
             np == IF absolute THEN Point(x, y)
                   ELSE Point(x + lp.x, y + lp.y)
         IN Return([m EXCEPT !.heap = [o \in {0, 1} |->
                                          IF o = 1 THEN np ELSE m.heap[0]],
                             !.lastPoint = 1], Self)

moveToLastPoint(m) ==
    IF Thrown(m) THEN m
    ELSE contextCall(m, "moveTo", <<Deref(m, m.lastPoint).x,
                                    Deref(m, m.lastPoint).y>>)

move(m, x, y, absolute) ==
    Return(moveToLastPoint(updateLastPoint(m, x, y, absolute)), Self)

hmove(m, x) == move(m, x, 0, FALSE)

vmove(m, y) == move(m, 0, y, FALSE)

home(m) ==
    LET o == Deref(m, m.origin)
    IN Return(moveToLastPoint(updateLastPoint(m, o.x, o.y, TRUE)), Self)

line(m, x, y) ==
    LET u == updateLastPoint(m, x, y, FALSE)
    IN IF Thrown(u) THEN u
       ELSE Return(contextCall(u, "lineTo", <<Deref(u, u.lastPoint).x,
                                              Deref(u, u.lastPoint).y>>),
                   Self)

stroke(m) == Return(contextCall(m, "stroke", <<>>), Self)

fill(m) == Return(contextCall(m, "fill", <<>>), Self)

hline(m, x) == line(m, x, 0)

vline(m, y) == line(m, 0, y)

\* The member this.context.arc is looked up first (TypeError without a
\* context); then the arguments are evaluated, and startAngle * c reads the
\* identifier c, which is declared nowhere: ReferenceError.  The call itself
\* is never made.
arc(m, x, y, r, startAngle, endAngle) ==
    IF Thrown(m) THEN m
    ELSE IF m.context = Undefined THEN Throw(m, "TypeError")
    ELSE Throw(m, "ReferenceError")

arcTo(m, ax, ay, r) ==
    IF Thrown(m) THEN m
    ELSE LET lp == Deref(m, m.lastPoint)
         IN Return(updateLastPoint(
                     contextCall(m, "arcTo",
                                 <<lp.x, lp.y, lp.x + ax, lp.y + ay, r>>),
                     ax, ay, FALSE), Self)

\* the shape shared by the eight corner helpers: a quadratic curve with
\* control point (x + cx, y + cy) to (x + ex, y + ey), then move(ex, ey)
corner(m, cx, cy, ex, ey) ==
    IF Thrown(m) THEN m
    ELSE LET x == Deref(m, m.lastPoint).x
             y == Deref(m, m.lastPoint).y
         IN Return(move(contextCall(m, "quadraticCurveTo",
                                    <<x + cx, y + cy, x + ex, y + ey>>),
                        ex, ey, FALSE), Self)

ne(m, r) == corner(m, 0, -r, r, -r)

se(m, r) == corner(m, 0, r, r, r)

nw(m, r) == corner(m, 0, -r, -r, -r)

sw(m, r) == corner(m, 0, r, -r, r)

wn(m, r) == corner(m, -r, 0, -r, -r)

ws(m, r) == corner(m, -r, 0, -r, r)

\* en drawn with ne's curve
en_aliased(m, r) == corner(m, 0, -r, r, -r)

en(m, r) == corner(m, r, 0, r, -r)

\* es drawn with se's curve
es_aliased(m, r) == corner(m, 0, r, r, r)

es(m, r) == corner(m, r, 0, r, r)

\* the value getCenter returns when this.canvas is an element
getCenter(m) == Point(Half(Val(m.canvas).width), Half(Val(m.canvas).height))

centerRect(m, w, h) ==
    IF Thrown(m) THEN m
    ELSE IF m.canvas = Undefined THEN Throw(m, "TypeError")
    ELSE LET center == getCenter(m)
             hh == OrElse(h, w)
         IN Return(contextCall(m, "strokeRect",
                               <<center.x - Half(w), center.y - Half(hh),
                                 w, hh>>), Self)

setLineColor(m, color) == Return(contextSet(m, "strokeStyle", color), Self)

setLineWidth(m, width) == Return(contextSet(m, "lineWidth", width), Self)

center(m) ==
    IF Thrown(m) THEN m
    ELSE IF m.canvas = Undefined THEN Throw(m, "TypeError")
    ELSE LET c == getCenter(m)
         IN Return(move(m, c.x, c.y, TRUE), Self)

begin(m) == Return(contextCall(m, "beginPath", <<>>), Self)

\* start with an absolute move
start_absolute(m) == begin(move(m, 0, 0, TRUE))

start(m) == begin(move(m, 0, 0, FALSE))

end(m, closePath) ==
    LET s == contextCall(m, "stroke", <<>>)
        c == IF closePath THEN contextCall(s, "closePath", <<>>) ELSE s
    IN IF Thrown(c) THEN c
       ELSE Return([c EXCEPT !.isDrawing = IF @ THEN FALSE ELSE @], Self)

\* reset that also sends the pen home
reset_home(m) ==
    IF Thrown(m) THEN m
    ELSE IF m.canvas = Undefined THEN Throw(m, "TypeError")
    ELSE Return(moveToLastPoint(updateLastPoint(m, 0, 0, TRUE)), Self)

\* this.canvas.width = this.canvas.width wipes the bitmap; the assignment
\* does not go through the context, so it needs the element only.
reset(m) ==
    IF Thrown(m) THEN m
    ELSE IF m.canvas = Undefined THEN Throw(m, "TypeError")
    ELSE Return(m, Self)

point(m) ==
    IF Thrown(m) THEN m
    ELSE LET b == begin(m)
             t == contextCall(b, "strokeText",
                              <<Deref(b, b.lastPoint).x,
                                Deref(b, b.lastPoint).y>>)
         IN Return(end(t, FALSE), Self)

loc(m) ==
    Return(m, Value(ToString(Deref(m, m.lastPoint).x) \o ", "
                    \o ToString(Deref(m, m.lastPoint).y)))

roundRect(m, width, height, radius, x, y, id) ==
    IF Thrown(m) THEN m
    ELSE IF m.canvas = Undefined THEN Throw(m, "TypeError")
    ELSE LET c == getCenter(m)
             xx == OrElse(x, c.x - Half(width) + radius)
             yy == OrElse(y, c.y - Half(height))
             old == IF m.rects = Undefined THEN <<>> ELSE Val(m.rects)
             d == [width |-> width, height |-> height, radius |-> radius,
                   x |-> xx, y |-> yy]
             reg == [k \in (DOMAIN old) \cup {id} |->
                        IF k = id THEN d ELSE old[k]]
             m0 == [m EXCEPT !.rects = Some(reg)]
             m1 == move(start(m0), xx, yy, TRUE)
             m2 == es(hline(m1, width - radius - radius), radius)
             m3 == sw(vline(m2, height - radius - radius), radius)
             m4 == wn(hline(m3, -width + radius + radius), radius)
             m5 == ne(vline(m4, -height + radius + radius), radius)
         IN end(m5, FALSE)

\* ---------------------------------------------------------- construction
\* el: what document.getElementById(id) gives (null or a canvas element);
\* has2d: whether el.getContext("2d") gives a context.
Plot(el, has2d, lineColor, lineWidth) ==
    [lastPoint |-> 0, origin |-> 0, heap |-> [o \in {0} |-> Point(0, 0)],
     isDrawing |-> FALSE, rects |-> Undefined, canvas |-> el,
     context |-> IF el # Undefined /\ has2d
                 THEN Some([strokeStyle |-> IF lineColor = Undefined
                                            THEN "#000" ELSE Val(lineColor),
                            lineWidth |-> OrElse(lineWidth, 1)])
                 ELSE Undefined,
     cmds |-> <<>>, status |-> "ok", ret |-> NoValue]

\* ------------------------------------------------------------ transitions
InRange(p) == /\ p.x \in (-MaxCoord)..MaxCoord
              /\ p.y \in (-MaxCoord)..MaxCoord

\* The call op(a) ran from This and ended in m: this is the state it leaves.
Invoke(op, a, m) ==
    /\ InRange(Deref(m, m.lastPoint))
    /\ lastPoint' = m.lastPoint
    /\ origin' = m.origin
    /\ heap' = m.heap
    /\ isDrawing' = m.isDrawing
    /\ rects' = m.rects
    /\ canvas' = m.canvas
    /\ context' = m.context
    /\ call' = [op |-> op, args |-> a]
    /\ cmds' = m.cmds
    /\ result' = IF Thrown(m) THEN [kind |-> "throw", value |-> m.status]
                 ELSE m.ret

Call(op, a, m) == Invoke(op, a, m) /\ UNCHANGED <<anchor, travelled>>

RelativeOps == {"move", "hmove", "vmove", "line", "hline", "vline"}

\* the offset of a relative move or line, from the call's arguments
Offset(op, a) ==
    CASE op \in {"move", "line"} -> Point(a[1], a[2])
      [] op \in {"hmove", "hline"} -> Point(a[1], 0)
      [] op \in {"vmove", "vline"} -> Point(0, a[1])

IsRelative(op, a) ==
    op \in RelativeOps /\ (op = "move" => ~a[3])

\* the call, with the history of the pen's path kept: a relative move or
\* line adds its offset to the run, any other call starts a new run where
\* it leaves the pen
Tracked(op, a, m) ==
    /\ Invoke(op, a, m)
    /\ IF IsRelative(op, a)
       THEN /\ anchor' = anchor
            /\ travelled' = Point(travelled.x + Offset(op, a).x,
                                  travelled.y + Offset(op, a).y)
       ELSE /\ anchor' = Deref(m, m.lastPoint)
            /\ travelled' = Point(0, 0)

Init ==
    \E el \in {Undefined} \cup
              {Some([width |-> s[1], height |-> s[2]]) : s \in CanvasSizes},
       has2d \in BOOLEAN,
       style \in {<<Undefined, Undefined>>, <<Some("red"), Some(2)>>} :
      LET p == Plot(el, has2d, style[1], style[2])
      IN /\ (el = Undefined => has2d /\ style[1] = Undefined)
         /\ (~has2d => style[1] = Undefined)
         /\ lastPoint = p.lastPoint
         /\ origin = p.origin
         /\ heap = p.heap
         /\ isDrawing = p.isDrawing
         /\ rects = p.rects
         /\ canvas = p.canvas
         /\ context = p.context
         /\ call = [op |-> "new", args |-> <<>>]
         /\ cmds = <<>>
         /\ result = Self
         /\ anchor = Point(0, 0)
         /\ travelled = Point(0, 0)

UpdateLastPoint ==
    \E x \in Steps, y \in Steps, a \in BOOLEAN :
        Call("updateLastPoint", <<x, y, a>>, updateLastPoint(This, x, y, a))

Move ==
    \E x \in Steps, y \in Steps, a \in BOOLEAN :
        Call("move", <<x, y, a>>, move(This, x, y, a))

HMove == \E x \in Steps : Call("hmove", <<x>>, hmove(This, x))

VMove == \E y \in Steps : Call("vmove", <<y>>, vmove(This, y))

Home == Call("home", <<>>, home(This))

Line == \E x \in Steps, y \in Steps : Call("line", <<x, y>>, line(This, x, y))

HLine == \E x \in Steps : Call("hline", <<x>>, hline(This, x))

VLine == \E y \in Steps : Call("vline", <<y>>, vline(This, y))

Stroke == Call("stroke", <<>>, stroke(This))

Fill == Call("fill", <<>>, fill(This))

Arc ==
    \E c \in ArcCentres, r \in Radii, d \in AnglePairs :
        Call("arc", <<c[1], c[2], r, d[1], d[2]>>,
             arc(This, c[1], c[2], r, d[1], d[2]))

ArcTo ==
    \E ax \in Steps, ay \in Steps, r \in Radii :
        Call("arcTo", <<ax, ay, r>>, arcTo(This, ax, ay, r))

Ne == \E r \in Radii : Call("ne", <<r>>, ne(This, r))

Se == \E r \in Radii : Call("se", <<r>>, se(This, r))

Nw == \E r \in Radii : Call("nw", <<r>>, nw(This, r))

Sw == \E r \in Radii : Call("sw", <<r>>, sw(This, r))

Wn == \E r \in Radii : Call("wn", <<r>>, wn(This, r))

Ws == \E r \in Radii : Call("ws", <<r>>, ws(This, r))

En == \E r \in Radii : Call("en", <<r>>, en(This, r))

Es == \E r \in Radii : Call("es", <<r>>, es(This, r))

CenterRect ==
    \E w \in {2, 4}, h \in {Undefined, Some(0), Some(2)} :
        Call("centerRect", <<w, h>>, centerRect(This, w, h))

SetLineColor ==
    \E c \in Colors : Call("setLineColor", <<c>>, setLineColor(This, c))

SetLineWidth ==
    \E w \in Widths : Call("setLineWidth", <<w>>, setLineWidth(This, w))

GetCenter ==
    Call("getCenter", <<>>,
         IF canvas = Undefined THEN Throw(This, "TypeError")
         ELSE Return(This, Value(getCenter(This))))

Center == Call("center", <<>>, center(This))

Begin == Call("begin", <<>>, begin(This))

Start == Call("start", <<>>, start(This))

End == \E c \in BOOLEAN : Call("end", <<c>>, end(This, c))

Reset == Call("reset", <<>>, reset(This))

PointOp == Call("point", <<>>, point(This))

Loc == Call("loc", <<>>, loc(This))

\* roundRect with its arguments drawn from the given sets
RoundRectOf(S, P, I) ==
    \E s \in S, r \in Radii, p \in P, id \in I :
        Call("roundRect", <<s[1], s[2], r, p[1], p[2], id>>,
             roundRect(This, s[1], s[2], r, p[1], p[2], id))

RoundRect == RoundRectOf({<<4, 2>>}, {<<Undefined, Undefined>>}, {"a"})

Next ==
    \/ UpdateLastPoint \/ Move \/ HMove \/ VMove \/ Home
    \/ Line \/ HLine \/ VLine \/ Stroke \/ Fill \/ Arc \/ ArcTo
    \/ Ne \/ Se \/ Nw \/ Sw \/ Wn \/ Ws \/ En \/ Es
    \/ CenterRect \/ SetLineColor \/ SetLineWidth \/ GetCenter \/ Center
    \/ Begin \/ Start \/ End \/ Reset \/ PointOp \/ Loc \/ RoundRect

Spec == Init /\ [][Next]_vars

\* ---- the pen's path: moves and lines only, with the history kept
PathMove ==
    \E x \in Steps, y \in Steps, a \in BOOLEAN :
        Tracked("move", <<x, y, a>>, move(This, x, y, a))

PathHMove == \E x \in Steps : Tracked("hmove", <<x>>, hmove(This, x))

PathVMove == \E y \in Steps : Tracked("vmove", <<y>>, vmove(This, y))

PathLine ==
    \E x \in Steps, y \in Steps : Tracked("line", <<x, y>>, line(This, x, y))

PathHLine == \E x \in Steps : Tracked("hline", <<x>>, hline(This, x))

PathVLine == \E y \in Steps : Tracked("vline", <<y>>, vline(This, y))

PathHome == Tracked("home", <<>>, home(This))

PathCenter == Tracked("center", <<>>, center(This))

NextPath ==
    \/ PathMove \/ PathHMove \/ PathVMove \/ PathLine \/ PathHLine
    \/ PathVLine \/ PathHome \/ PathCenter

SpecPath == Init /\ [][NextPath]_vars

\* ---- the rectangle registry: roundRect over all its argument shapes,
\* from a few pen positions
RectRoundRect == RoundRectOf(RectSizes, RectPlaces, Ids)

RectMove ==
    \E p \in PenPlaces :
        Call("move", <<p[1], p[2], TRUE>>, move(This, p[1], p[2], TRUE))

NextRect == RectRoundRect \/ RectMove

SpecRect == Init /\ [][NextRect]_vars

\* views of the instance's fields
LastPoint == heap[lastPoint]
Origin == heap[origin]

\* ----------------------------------------------------------- properties
Usable == context # Undefined
Plus(p, dx, dy) == Point(p.x + dx, p.y + dy)
XY(p) == <<p.x, p.y>>

\* the step ends in the state and surface commands that m holds
Leaves(m) ==
    /\ LastPoint' = Deref(m, m.lastPoint)
    /\ Origin' = Deref(m, m.origin)
    /\ isDrawing' = m.isDrawing
    /\ rects' = m.rects
    /\ context' = m.context
    /\ cmds' = m.cmds

\* C1, as stated: after start() on a usable surface the pen is at (0,0) and
\* the surface has received a move-to (0,0) followed by a begin-path.
C1_StartGoesToOrigin ==
    (call.op = "start" /\ Usable) =>
        /\ LastPoint = Point(0, 0)
        /\ cmds = <<Cmd("moveTo", <<0, 0>>), Cmd("beginPath", <<>>)>>

\* C1, amended: start() moves the pen by (0,0) relative to where it is, then
\* opens a path: the pen keeps its position p, the surface receives a
\* move-to p followed by a begin-path, and the state is the one that
\* move(0,0,false) followed by begin() leaves.
C1_StartKeepsPen ==
    [][(call'.op = "start" /\ Usable) =>
          /\ LastPoint' = LastPoint
          /\ cmds' = <<Cmd("moveTo", XY(LastPoint)), Cmd("beginPath", <<>>)>>
          /\ result'.kind = "this"
          /\ Leaves(begin(move(This, 0, 0, FALSE)))]_vars

C1_Witness ==
    /\ call.op = "start" /\ Usable /\ result.kind = "this"
    /\ LastPoint # Point(0, 0)
    /\ Len(cmds) = 2

\* the calls C2 names
DrawingOps ==
    {"move", "hmove", "vmove", "home", "center", "line", "hline", "vline",
     "arcTo", "ne", "se", "nw", "sw", "wn", "ws", "en", "es", "begin", "end",
     "stroke", "fill", "point", "roundRect"}

\* C2: without a usable surface a drawing or positioning call changes
\* neither lastPoint, isDrawing nor the rectangle registry, and does not
\* dereference the absent context (which would be a TypeError).
C2_NoSurfaceNoEffect ==
    [][(~Usable /\ call'.op \in DrawingOps) =>
          /\ LastPoint' = LastPoint
          /\ isDrawing' = isDrawing
          /\ rects' = rects
          /\ ~(result'.kind = "throw" /\ result'.value = "TypeError")]_vars

\* C3: a relative move or line adds its offset to the pen, an absolute move
\* sets it; the surface's move-to / line-to gets the new pen position; hmove,
\* vmove, hline, vline leave what move(x,0,false), move(0,y,false), line(x,0),
\* line(0,y) leave.
C3_Step ==
    LET op == call'.op
        a == call'.args
    IN /\ (op = "move" /\ ~a[3]) => LastPoint' = Plus(LastPoint, a[1], a[2])
       /\ (op = "move" /\ a[3]) => LastPoint' = Point(a[1], a[2])
       /\ op = "line" => LastPoint' = Plus(LastPoint, a[1], a[2])
       /\ (op = "move" /\ Usable) =>
              cmds' = <<Cmd("moveTo", XY(LastPoint'))>>
       /\ (op = "line" /\ Usable) =>
              cmds' = <<Cmd("lineTo", XY(LastPoint'))>>
       /\ op = "hmove" =>
              /\ Leaves(move(This, a[1], 0, FALSE))
              /\ LastPoint' = Plus(LastPoint, a[1], 0)
       /\ op = "vmove" =>
              /\ Leaves(move(This, 0, a[1], FALSE))
              /\ LastPoint' = Plus(LastPoint, 0, a[1])
       /\ op = "hline" =>
              /\ Leaves(line(This, a[1], 0))
              /\ LastPoint' = Plus(LastPoint, a[1], 0)
       /\ op = "vline" =>
              /\ Leaves(line(This, 0, a[1]))
              /\ LastPoint' = Plus(LastPoint, 0, a[1])
       /\ (op \in RelativeOps /\ Usable) => result'.kind = "this"

\* C3, the consequence: the pen is where the run of relative moves and
\* lines started plus the sum of their offsets.
C3_Path == LastPoint = Plus(anchor, travelled.x, travelled.y)

\* C3: the pen update rule holds of every step, and the sum of every path.
C3_PenUpdate == [][C3_Step]_vars /\ []C3_Path

C3_Witness ==
    /\ call.op = "vline" /\ Usable /\ result.kind = "this"
    /\ anchor = Point(1, -1)
    /\ travelled = Point(-2, 1)

\* the table of corner offsets
CornerOps == {"ne", "se", "nw", "sw", "wn", "ws", "en", "es"}
CornerOffset(op, r) ==
    CASE op \in {"ne", "en"} -> Point(r, -r)
      [] op \in {"se", "es"} -> Point(r, r)
      [] op \in {"nw", "wn"} -> Point(-r, -r)
      [] op \in {"sw", "ws"} -> Point(-r, r)
\* the helper that ends where op ends
Twin(op) ==
    CASE op = "ne" -> "en" [] op = "en" -> "ne"
      [] op = "se" -> "es" [] op = "es" -> "se"
      [] op = "nw" -> "wn" [] op = "wn" -> "nw"
      [] op = "sw" -> "ws" [] op = "ws" -> "sw"
CornerCall(op, m, r) ==
    CASE op = "ne" -> ne(m, r) [] op = "en" -> en(m, r)
      [] op = "se" -> se(m, r) [] op = "es" -> es(m, r)
      [] op = "nw" -> nw(m, r) [] op = "wn" -> wn(m, r)
      [] op = "sw" -> sw(m, r) [] op = "ws" -> ws(m, r)
\* control point and end point of a quadraticCurveTo command
Control(c) == <<c.args[1], c.args[2]>>
EndPoint(c) == <<c.args[3], c.args[4]>>

\* what C4 says of the pen and of the curve's end point
CornerLands ==
    LET op == call'.op
        r == call'.args[1]
    IN /\ LastPoint' = Plus(LastPoint, CornerOffset(op, r).x,
                            CornerOffset(op, r).y)
       /\ Len(cmds') = 2
       /\ cmds'[1].op = "quadraticCurveTo"
       /\ EndPoint(cmds'[1]) = XY(LastPoint')
       /\ cmds'[2] = Cmd("moveTo", XY(LastPoint'))
       /\ result'.kind = "this"

TwinDiffers ==
    Control(cmds'[1]) #
        Control(CornerCall(Twin(call'.op), This, call'.args[1]).cmds[1])

\* C4, as stated: for every radius a corner helper leaves the pen at its
\* table offset, its curve ends there, and its control point differs from
\* that of the helper sharing its end point.
C4_CornersAllRadii ==
    [][(call'.op \in CornerOps /\ Usable) =>
          CornerLands /\ TwinDiffers]_vars

\* C4, amended: for every radius a corner helper leaves the pen at its table
\* offset and its curve ends there; for every radius other than 0 its
\* control point differs from that of the helper sharing its end point (at
\* radius 0 both control points are the pen position).
C4_Corners ==
    [][(call'.op \in CornerOps /\ Usable) =>
          /\ CornerLands
          /\ IF call'.args[1] # 0 THEN TwinDiffers ELSE ~TwinDiffers]_vars

C4_Witness ==
    /\ call.op = "en" /\ call.args = <<1>> /\ Usable
    /\ result.kind = "this"
    /\ LastPoint = Point(1, -1)

\* the descriptor C5 expects: a supplied x or y is kept, whatever number
\* it is; an omitted one is derived from the centre
C5_Expected(a) ==
    LET c == getCenter(This)
    IN [width |-> a[1], height |-> a[2], radius |-> a[3],
        x |-> IF a[4] # Undefined THEN Val(a[4])
              ELSE c.x - Half(a[1]) + a[3],
        y |-> IF a[5] # Undefined THEN Val(a[5]) ELSE c.y - Half(a[2])]

\* C5: roundRect records under id the descriptor with the supplied x and y
\* (0 included), replacing an earlier entry and leaving other ids alone.
C5_RecordsSupplied ==
    [][(call'.op = "roundRect" /\ Usable) =>
          LET a == call'.args
          IN /\ rects' # Undefined
             /\ a[6] \in DOMAIN Val(rects')
             /\ Val(rects')[a[6]] = C5_Expected(a)
             /\ \A k \in Ids \ {a[6]} :
                   /\ k \in DOMAIN Val(rects') <=>
                         (rects # Undefined /\ k \in DOMAIN Val(rects))
                   /\ k \in DOMAIN Val(rects') =>
                         Val(rects')[k] = Val(rects)[k]]_vars

\* C6: on a usable surface every method but getCenter and loc returns the
\* instance.
C6_ReturnsThis ==
    (Usable /\ call.op \notin {"new", "getCenter", "loc"}) =>
        result.kind = "this"

\* Plot.convert, the degrees-to-radians factor, kept symbolic
convert == "Math.PI/180"
Radians(deg) == [degrees |-> deg, times |-> convert]

\* C7: arc issues one arc command, centred at (cx,cy) with radius r, its
\* angles converted to radians and the counter-clockwise flag false, and
\* leaves the pen where it was.
C7_ArcCommand ==
    [][(call'.op = "arc" /\ Usable) =>
          LET a == call'.args
          IN /\ Len(cmds') = 1
             /\ cmds'[1].op = "arc"
             /\ cmds'[1].args = <<a[1], a[2], a[3], Radians(a[4]),
                                  Radians(a[5]), FALSE>>
             /\ LastPoint' = LastPoint
             /\ result'.kind = "this"]_vars

\* C8: origin is (0,0) in every state, and home() leaves the pen at (0,0)
\* with the surface cursor moved there.
C8_OriginFixed ==
    /\ Origin = Point(0, 0)
    /\ call.op = "home" =>
          /\ LastPoint = Point(0, 0)
          /\ Usable => /\ cmds = <<Cmd("moveTo", <<0, 0>>)>>
                       /\ result.kind = "this"

C8_Witness ==
    /\ call.op = "home" /\ Usable /\ result.kind = "this"
    /\ lastPoint # origin
    /\ rects # Undefined

\* the calls C9 names
NonPositioningOps ==
    {"stroke", "fill", "begin", "end", "reset", "centerRect", "getCenter",
     "setLineColor", "setLineWidth", "point", "loc"}

\* C9: a call that is not a positioning call leaves lastPoint, origin and
\* the rectangle registry as they were.
C9_PenUntouched ==
    [][call'.op \in NonPositioningOps =>
          /\ LastPoint' = LastPoint
          /\ Origin' = Origin
          /\ rects' = rects]_vars

C9_Witness ==
    /\ call.op = "reset" /\ Usable /\ result.kind = "this"
    /\ LastPoint = Point(-1, 1)
    /\ rects # Undefined

\* the commands that draw
Drawn == SelectSeq(cmds, LAMBDA c : c.op \in {"lineTo", "quadraticCurveTo"})
\* the point a command leaves the surface cursor at
CursorAfter(c) ==
    IF c.op = "quadraticCurveTo" THEN EndPoint(c) ELSE c.args

\* C10: roundRect draws, in this order, the top edge, the east-then-south
\* corner, the right edge, the south-then-west corner, the bottom edge, the
\* west-then-north corner, the left edge and the north-then-east corner,
\* each from where the one before ended, then strokes without closing the
\* path; the pen ends at the (x,y) of the descriptor.
C10_ClosedLoop ==
    (call.op = "roundRect" /\ Usable) =>
        LET d == Val(rects)[call.args[6]]
            w == d.width - 2 * d.radius
            h == d.height - 2 * d.radius
            r == d.radius
            p0 == Point(d.x, d.y)
            p1 == Plus(p0, w, 0)
            p2 == Plus(p1, r, r)
            p3 == Plus(p2, 0, h)
            p4 == Plus(p3, -r, r)
            p5 == Plus(p4, -w, 0)
            p6 == Plus(p5, -r, -r)
            p7 == Plus(p6, 0, -h)
        IN /\ Drawn = <<Cmd("lineTo", XY(p1)),
                        Cmd("quadraticCurveTo", <<p1.x + r, p1.y>> \o XY(p2)),
                        Cmd("lineTo", XY(p3)),
                        Cmd("quadraticCurveTo", <<p3.x, p3.y + r>> \o XY(p4)),
                        Cmd("lineTo", XY(p5)),
                        Cmd("quadraticCurveTo", <<p5.x - r, p5.y>> \o XY(p6)),
                        Cmd("lineTo", XY(p7)),
                        Cmd("quadraticCurveTo", <<p7.x, p7.y - r>> \o XY(p0))>>
           /\ cmds[3] = Cmd("moveTo", XY(p0))
           /\ \A i \in 4..(Len(cmds) - 1) :
                 cmds[i].op = "moveTo" => cmds[i].args = CursorAfter(cmds[i - 1])
           /\ cmds[Len(cmds)] = Cmd("stroke", <<>>)
           /\ \A i \in 1..Len(cmds) : cmds[i].op # "closePath"
           /\ LastPoint = p0
           /\ result.kind = "this"

C10_Witness ==
    /\ call.op = "roundRect" /\ Usable /\ result.kind = "this"
    /\ call.args[3] = 1 /\ call.args[4] = Some(1) /\ call.args[5] = Some(1)
    /\ Len(cmds) = 16

====
